---------------------------- MODULE Spec2Model ----------------------------
(***************************************************************************)
(* State-machine model of src/followers/data_classification.py: a linear   *)
(* script that reads a table, splits it into a training and a validation   *)
(* partition, wraps both in shuffled, batched datasets, builds one encoder *)
(* per model input, fits the model and predicts on one example.            *)
(*                                                                         *)
(* Records are represented by their row labels.  What an encoder learned   *)
(* is represented by the column it was adapted from and the row labels it  *)
(* read; the model's weights by the number of updates applied to them.     *)
(***************************************************************************)
EXTENDS Integers, Sequences, FiniteSets

\* ------------------------------------------------------------------ bounds
\* Smallest and largest number of rows of the input table that are explored.
\* From MinRecords rows on both partitions hold a record; up to MaxRecords the
\* training partition spans one, two or three batches.
MinRecords == 4
MaxRecords == 77
\* Number of outcomes of the seeded row sampler that are explored.
MaxSeed == 2
\* Number of shuffle orders explored per pass over a dataset.
MaxShuffle == 2
\* Largest number of model inputs a predict mapping may omit.
MaxOmitted == 1

\* ------------------------------------------------------- program constants
\* dataframe.sample(frac=0.15, ...): the fraction as FracNum / FracDen.
FracNum == 15
FracDen == 100
\* train_ds.batch(32), val_ds.batch(32)
BatchSize == 32
\* model.fit(..., epochs=50, ...)
Epochs == 50

VARIABLES
    pc,               \* position of the script
    dataframe,        \* row labels of the table read from the CSV file
    val_dataframe,    \* row labels of the validation partition
    train_dataframe,  \* row labels of the training partition
    train_ds,         \* dataset built from train_dataframe
    val_ds,           \* dataset built from val_dataframe
    encIdx,           \* index in EncodeCalls of the encode_* call in progress
    encStep,          \* index in StepsOf(..) of the next step of that call
    encState,         \* per encode_* call: what its layer has learned
    encoded,          \* per encode_* call: outcome of applying its layer
    model,            \* the compiled model ("none" before keras.Model)
    weights,          \* number of updates applied to the model's weights
    epoch,            \* number of completed epochs of model.fit
    phase,            \* "idle" | "train" | "val": pass of the current epoch
    iter,             \* batches the current pass has not yielded yet
    yielded,          \* sizes of the batches the current pass has yielded
    sample,           \* feature names of the mapping given to model.predict
    predictions,      \* result of model.predict
    failure           \* why the script stopped with an error, or "none"

vars == <<pc, dataframe, val_dataframe, train_dataframe, train_ds, val_ds,
          encIdx, encStep, encState, encoded, model, weights, epoch, phase,
          iter, yielded, sample, predictions, failure>>

\* ----------------------------------------------------------------- helpers
Range(s) == {s[i] : i \in 1..Len(s)}

\* Python's round(): to the nearest integer, a tie to the even one.
RoundHalfEven(a, b) ==
    LET q == a \div b
        r == a % b
    IN  IF 2 * r < b THEN q
        ELSE IF 2 * r > b THEN q + 1
        ELSE IF q % 2 = 0 THEN q ELSE q + 1

\* The k-th order of s drawn by a random generator: the explored orders are
\* s itself, s reversed, and s rotated.
Perm(s, k) ==
    LET n == Len(s)
    IN  IF n = 0 \/ k = 0 THEN s
        ELSE IF k = 1 THEN [i \in 1..n |-> s[n + 1 - i]]
        ELSE [i \in 1..n |-> s[((i - 1 + (k - 1)) % n) + 1]]

\* DataFrame.sample(frac=..., random_state=...): round(frac * len) rows drawn
\* without replacement, in the order the generator k draws them.
SampleFrac(frame, k) ==
    SubSeq(Perm(frame, k), 1, RoundHalfEven(FracNum * Len(frame), FracDen))

\* Mutant of DropIndex: as many rows as should remain, taken from the head of
\* the frame whatever their labels.
DropIndexHead(frame, index) ==
    SubSeq(frame, 1, Len(frame) - Len(index))

\* DataFrame.drop(index): the rows whose label is not among the given ones.
DropIndex(frame, index) ==
    SelectSeq(frame, LAMBDA r : r \notin Range(index))

\* dataframe_to_dataset: the rows, shuffled with a buffer of len(dataframe).
dataframe_to_dataset(frame) ==
    [rows |-> frame, buffer_size |-> Len(frame), batch_size |-> 0]

\* Dataset.batch(n)
BatchDataset(ds, n) == [ds EXCEPT !.batch_size = n]

\* Dataset.shuffle with a buffer that holds every row: a full permutation.
Shuffle(rows, k) == Perm(rows, k)

\* Mutant of Batch: batch(n, drop_remainder=True), the short last group lost.
RECURSIVE BatchDropRemainder(_, _)
BatchDropRemainder(s, n) ==
    IF Len(s) < n THEN <<>>
    ELSE <<SubSeq(s, 1, n)>> \o BatchDropRemainder(SubSeq(s, n + 1, Len(s)), n)

\* Dataset.batch(n) over a sequence: groups of n in order, the rest last.
RECURSIVE Batch(_, _)
Batch(s, n) ==
    IF Len(s) = 0 THEN <<>>
    ELSE IF Len(s) <= n THEN <<s>>
    ELSE <<SubSeq(s, 1, n)>> \o Batch(SubSeq(s, n + 1, Len(s)), n)

\* One pass over a batched dataset, with shuffle order k.
Iterate(ds, k) == Batch(Shuffle(ds.rows, k), ds.batch_size)

RECURSIVE RowsOf(_)
RowsOf(batches) ==
    IF Len(batches) = 0 THEN {}
    ELSE Range(Head(batches)) \cup RowsOf(Tail(batches))

\* --------------------------------------------------------- model structure
\* keras.Input declarations: the dtype of each input slot.
SlotDtype ==
    [Profile_picture  |-> "int64",
     Bot_Score        |-> "int64",
     followers        |-> "float32",
     following        |-> "float32",
     creation_date    |-> "float32",
     number_of_tweets |-> "float32",
     Retweet_Ratio    |-> "float32",
     Tweets_Per_Day   |-> "float32"]

\* all_inputs: the names of the model's input slots, in order.
all_inputs ==
    <<"followers", "following", "creation_date", "number_of_tweets",
      "Retweet_Ratio", "Profile_picture", "Tweets_Per_Day", "Bot_Score">>

\* Mutant of EncodeCalls: the last call is given val_ds instead of train_ds.
EncodeCallsLeaky ==
    <<[fn |-> "integer",   slot |-> "Profile_picture",
       column |-> "Profile_picture",  dataset |-> "train_ds"],
      [fn |-> "integer",   slot |-> "Tweets_Per_Day",
       column |-> "Bot_Score",        dataset |-> "train_ds"],
      [fn |-> "numerical", slot |-> "followers",
       column |-> "followers",        dataset |-> "train_ds"],
      [fn |-> "numerical", slot |-> "following",
       column |-> "following",        dataset |-> "train_ds"],
      [fn |-> "numerical", slot |-> "creation_date",
       column |-> "creation_date",    dataset |-> "train_ds"],
      [fn |-> "numerical", slot |-> "number_of_tweets",
       column |-> "number_of_tweets", dataset |-> "train_ds"],
      [fn |-> "numerical", slot |-> "Retweet_Ratio",
       column |-> "Retweet_Ratio",    dataset |-> "train_ds"],
      [fn |-> "numerical", slot |-> "Bot_Score",
       column |-> "Tweets_Per_Day",   dataset |-> "val_ds"]>>

\* The encode_* calls of the script in the order it makes them: the function,
\* the input slot given as `feature`, the column given as `name`, the dataset.
EncodeCalls ==
    <<[fn |-> "integer",   slot |-> "Profile_picture",
       column |-> "Profile_picture",  dataset |-> "train_ds"],
      [fn |-> "integer",   slot |-> "Tweets_Per_Day",
       column |-> "Bot_Score",        dataset |-> "train_ds"],
      [fn |-> "numerical", slot |-> "followers",
       column |-> "followers",        dataset |-> "train_ds"],
      [fn |-> "numerical", slot |-> "following",
       column |-> "following",        dataset |-> "train_ds"],
      [fn |-> "numerical", slot |-> "creation_date",
       column |-> "creation_date",    dataset |-> "train_ds"],
      [fn |-> "numerical", slot |-> "number_of_tweets",
       column |-> "number_of_tweets", dataset |-> "train_ds"],
      [fn |-> "numerical", slot |-> "Retweet_Ratio",
       column |-> "Retweet_Ratio",    dataset |-> "train_ds"],
      [fn |-> "numerical", slot |-> "Bot_Score",
       column |-> "Tweets_Per_Day",   dataset |-> "train_ds"]>>

Calls == 1..Len(EncodeCalls)

\* Mutant of NumericalSteps: the layer is applied before it is adapted.
NumericalStepsCallFirst == <<"call", "adapt">>

\* The layer steps of encode_numerical_feature, in the order it runs them.
NumericalSteps == <<"adapt", "call">>

\* Mutant of IntegerSteps: the layer is adapted again after it was applied.
IntegerStepsReadapt == <<"adapt", "call", "adapt">>

\* The layer steps of encode_integer_categorical_feature.
IntegerSteps == <<"adapt", "call">>

StepsOf(fn) == IF fn = "integer" THEN IntegerSteps ELSE NumericalSteps

\* The dtype a layer is made for: CategoryEncoding counts integer indices,
\* Normalization scales floats.
LayerDtype(fn) == IF fn = "integer" THEN "int64" ELSE "float32"

\* The dataset an encode_* call was given.
DatasetOf(name) == IF name = "train_ds" THEN train_ds ELSE val_ds

\* sample: the feature names of the example the script predicts on.
ScriptSample ==
    {"followers", "following", "creation_date", "number_of_tweets",
     "Retweet_Ratio", "Profile_picture", "Bot_Score"}

\* The mappings a predict call is explored with: every model input but at
\* most MaxOmitted of them.  ScriptSample is one of them.
Samples ==
    {Range(all_inputs) \ d :
        d \in {x \in SUBSET Range(all_inputs) : Cardinality(x) <= MaxOmitted}}

NoState == [adapted |-> FALSE, column |-> "none", rows |-> {}, adapts |-> 0]
NotEncoded == [slot |-> "none", outcome |-> "none"]

\* -------------------------------------------------------------------- Init
\* After pd.read_csv: a table of N rows with a unique label per row.
Init ==
    /\ pc = "split"
    /\ \E n \in MinRecords..MaxRecords : dataframe = [i \in 1..n |-> i]
    /\ val_dataframe = <<>>
    /\ train_dataframe = <<>>
    /\ train_ds = dataframe_to_dataset(<<>>)
    /\ val_ds = dataframe_to_dataset(<<>>)
    /\ encIdx = 1
    /\ encStep = 1
    /\ encState = [e \in Calls |-> NoState]
    /\ encoded = [e \in Calls |-> NotEncoded]
    /\ model = "none"
    /\ weights = 0
    /\ epoch = 0
    /\ phase = "idle"
    /\ iter = <<>>
    /\ yielded = <<>>
    /\ sample = {}
    /\ predictions = "none"
    /\ failure = "none"

\* ----------------------------------------------------------------- actions
\* val_dataframe = dataframe.sample(...); train_dataframe = dataframe.drop(..)
Split ==
    /\ pc = "split"
    /\ \E k \in 0..(MaxSeed - 1) :
        /\ val_dataframe' = SampleFrac(dataframe, k)
        /\ train_dataframe' = DropIndex(dataframe, SampleFrac(dataframe, k))
    /\ pc' = "wrap"
    /\ UNCHANGED <<dataframe, train_ds, val_ds, encIdx, encStep, encState,
                   encoded, model, weights, epoch, phase, iter, yielded,
                   sample, predictions, failure>>

\* train_ds = dataframe_to_dataset(train_dataframe); val_ds likewise
Wrap ==
    /\ pc = "wrap"
    /\ train_ds' = dataframe_to_dataset(train_dataframe)
    /\ val_ds' = dataframe_to_dataset(val_dataframe)
    /\ pc' = "batch"
    /\ UNCHANGED <<dataframe, val_dataframe, train_dataframe, encIdx, encStep,
                   encState, encoded, model, weights, epoch, phase, iter,
                   yielded, sample, predictions, failure>>

\* train_ds = train_ds.batch(32); val_ds = val_ds.batch(32)
BatchDatasets ==
    /\ pc = "batch"
    /\ train_ds' = BatchDataset(train_ds, BatchSize)
    /\ val_ds' = BatchDataset(val_ds, BatchSize)
    /\ pc' = "encode"
    /\ UNCHANGED <<dataframe, val_dataframe, train_dataframe, encIdx, encStep,
                   encState, encoded, model, weights, epoch, phase, iter,
                   yielded, sample, predictions, failure>>

\* The script's position after the current step of the current encode_* call.
AdvanceEncode ==
    IF encStep < Len(StepsOf(EncodeCalls[encIdx].fn))
    THEN /\ encStep' = encStep + 1
         /\ UNCHANGED <<encIdx, pc>>
    ELSE /\ encStep' = 1
         /\ IF encIdx < Len(EncodeCalls)
            THEN encIdx' = encIdx + 1 /\ UNCHANGED pc
            ELSE pc' = "compile" /\ UNCHANGED encIdx

\* layer.adapt(feature_ds): one pass over the given dataset's column `name`.
EncodeAdapt ==
    /\ pc = "encode"
    /\ StepsOf(EncodeCalls[encIdx].fn)[encStep] = "adapt"
    /\ \E k \in 0..(MaxShuffle - 1) :
        encState' = [encState EXCEPT ![encIdx] =
            [adapted |-> TRUE,
             column  |-> EncodeCalls[encIdx].column,
             rows    |-> RowsOf(Iterate(DatasetOf(EncodeCalls[encIdx].dataset), k)),
             adapts  |-> @.adapts + 1]]
    /\ AdvanceEncode
    /\ UNCHANGED <<dataframe, val_dataframe, train_dataframe, train_ds, val_ds,
                   encoded, model, weights, epoch, phase, iter, yielded,
                   sample, predictions, failure>>

\* What applying the layer of call e to its input slot can result in.  A
\* layer that has not been adapted either raises or transforms with its
\* initial state, and a slot whose dtype is not the layer's is either cast or
\* rejected: which one depends on the layer and on the library's version.
CallOutcomes(e) ==
    IF ~encState[e].adapted THEN {"unadapted_error", "passthrough"}
    ELSE IF SlotDtype[EncodeCalls[e].slot] # LayerDtype(EncodeCalls[e].fn)
         THEN {"encoded", "dtype_error"}
         ELSE {"encoded"}

\* encoded_feature = layer(feature)
EncodeCall ==
    /\ pc = "encode"
    /\ StepsOf(EncodeCalls[encIdx].fn)[encStep] = "call"
    /\ \E o \in CallOutcomes(encIdx) :
        /\ encoded' = [encoded EXCEPT ![encIdx] =
                          [slot |-> EncodeCalls[encIdx].slot, outcome |-> o]]
        /\ IF o \in {"unadapted_error", "dtype_error"}
           THEN /\ pc' = "error"
                /\ failure' = o
                /\ UNCHANGED <<encIdx, encStep>>
           ELSE /\ AdvanceEncode
                /\ UNCHANGED failure
    /\ UNCHANGED <<dataframe, val_dataframe, train_dataframe, train_ds, val_ds,
                   encState, model, weights, epoch, phase, iter, yielded,
                   sample, predictions>>

\* model = keras.Model(all_inputs, output); model.compile(...)
Compile ==
    /\ pc = "compile"
    /\ model' = [inputs |-> all_inputs,
                 features |-> [e \in Calls |-> encoded[e].slot]]
    /\ pc' = "fit"
    /\ UNCHANGED <<dataframe, val_dataframe, train_dataframe, train_ds, val_ds,
                   encIdx, encStep, encState, encoded, weights, epoch, phase,
                   iter, yielded, sample, predictions, failure>>

\* model.fit: an epoch starts with a fresh pass over train_ds.
EpochBegin ==
    /\ pc = "fit"
    /\ phase = "idle"
    /\ epoch < Epochs
    /\ \E k \in 0..(MaxShuffle - 1) : iter' = Iterate(train_ds, k)
    /\ yielded' = <<>>
    /\ phase' = "train"
    /\ UNCHANGED <<pc, dataframe, val_dataframe, train_dataframe, train_ds,
                   val_ds, encIdx, encStep, encState, encoded, model, weights,
                   epoch, sample, predictions, failure>>

\* The effect of one training batch on the weights: one optimizer update.
TrainUpdate(w) == w + 1

\* model.fit: one training batch.
TrainStep ==
    /\ pc = "fit"
    /\ phase = "train"
    /\ iter # <<>>
    /\ weights' = TrainUpdate(weights)
    /\ yielded' = Append(yielded, Len(Head(iter)))
    /\ iter' = Tail(iter)
    /\ UNCHANGED <<pc, dataframe, val_dataframe, train_dataframe, train_ds,
                   val_ds, encIdx, encStep, encState, encoded, model, epoch,
                   phase, sample, predictions, failure>>

\* model.fit: the training pass is exhausted; validation_data is evaluated
\* with a fresh pass over val_ds.
ValBegin ==
    /\ pc = "fit"
    /\ phase = "train"
    /\ iter = <<>>
    /\ \E k \in 0..(MaxShuffle - 1) : iter' = Iterate(val_ds, k)
    /\ yielded' = <<>>
    /\ phase' = "val"
    /\ UNCHANGED <<pc, dataframe, val_dataframe, train_dataframe, train_ds,
                   val_ds, encIdx, encStep, encState, encoded, model, weights,
                   epoch, sample, predictions, failure>>

\* Mutant of ValUpdate: a validation batch updates the weights too.
ValUpdateTrains(w) == w + 1

\* The effect of one validation batch on the weights: none.
ValUpdate(w) == w

\* model.fit: one validation batch.
ValStep ==
    /\ pc = "fit"
    /\ phase = "val"
    /\ iter # <<>>
    /\ weights' = ValUpdate(weights)
    /\ yielded' = Append(yielded, Len(Head(iter)))
    /\ iter' = Tail(iter)
    /\ UNCHANGED <<pc, dataframe, val_dataframe, train_dataframe, train_ds,
                   val_ds, encIdx, encStep, encState, encoded, model, epoch,
                   phase, sample, predictions, failure>>

\* model.fit: the validation pass is exhausted; the epoch is complete.
EpochEnd ==
    /\ pc = "fit"
    /\ phase = "val"
    /\ iter = <<>>
    /\ epoch' = epoch + 1
    /\ phase' = "idle"
    /\ UNCHANGED <<pc, dataframe, val_dataframe, train_dataframe, train_ds,
                   val_ds, encIdx, encStep, encState, encoded, model, weights,
                   iter, yielded, sample, predictions, failure>>

\* model.fit returns after the last epoch.
FitEnd ==
    /\ pc = "fit"
    /\ phase = "idle"
    /\ epoch >= Epochs
    /\ pc' = "predict"
    /\ UNCHANGED <<dataframe, val_dataframe, train_dataframe, train_ds, val_ds,
                   encIdx, encStep, encState, encoded, model, weights, epoch,
                   phase, iter, yielded, sample, predictions, failure>>

\* Mutant of PredictOutcome: an input the mapping omits is silently defaulted.
PredictOutcomeLenient(s) ==
    IF s # {} THEN "probability" ELSE "error"

\* The result of model.predict on a mapping with the feature names s: the
\* sigmoid output when s names every input of the model, an error otherwise.
PredictOutcome(s) ==
    IF Range(model.inputs) \subseteq s THEN "probability" ELSE "error"

\* input_dict = {...}; predictions = model.predict(input_dict)
Predict ==
    /\ pc = "predict"
    /\ \E s \in Samples :
        /\ sample' = s
        /\ IF PredictOutcome(s) = "probability"
           THEN /\ predictions' = "probability"
                /\ pc' = "print"
                /\ UNCHANGED failure
           ELSE /\ predictions' = "none"
                /\ pc' = "error"
                /\ failure' = "missing_input"
    /\ UNCHANGED <<dataframe, val_dataframe, train_dataframe, train_ds, val_ds,
                   encIdx, encStep, encState, encoded, model, weights, epoch,
                   phase, iter, yielded>>

\* print("This twitter account has a ... percent chance of being a bot.")
PrintResult ==
    /\ pc = "print"
    /\ pc' = "done"
    /\ UNCHANGED <<dataframe, val_dataframe, train_dataframe, train_ds, val_ds,
                   encIdx, encStep, encState, encoded, model, weights, epoch,
                   phase, iter, yielded, sample, predictions, failure>>

Next ==
    \/ Split
    \/ Wrap
    \/ BatchDatasets
    \/ EncodeAdapt
    \/ EncodeCall
    \/ Compile
    \/ EpochBegin
    \/ TrainStep
    \/ ValBegin
    \/ ValStep
    \/ EpochEnd
    \/ FitEnd
    \/ Predict
    \/ PrintResult

Spec == Init /\ [][Next]_vars

\* ------------------------------------------------------------------ claims
\* Number of times row label r occurs in frame.
Occurrences(frame, r) == Cardinality({i \in 1..Len(frame) : frame[i] = r})

\* ceil(n / b)
CeilDiv(n, b) == (n + b - 1) \div b

\* The batch sizes a pass over n records is to yield: ceil(n/32) batches,
\* each of 32 records but the last, which holds the rest.
ExpectedSizes(n) ==
    [i \in 1..CeilDiv(n, 32) |->
        IF i < CeilDiv(n, 32) THEN 32 ELSE n - 32 * (CeilDiv(n, 32) - 1)]

\* model.fit has returned.
FitReturned ==
    \/ pc \in {"predict", "print", "done"}
    \/ pc = "error" /\ failure = "missing_input"

\* model.predict has been called.
PredictCalled ==
    \/ pc \in {"print", "done"}
    \/ pc = "error" /\ failure = "missing_input"

\* C1: once the table is split, the validation and the training partition
\* share no record, their sizes sum to the number of records of the table,
\* and every record of the table is in exactly one of the two.
C1_SplitPartitions ==
    pc # "split" =>
        /\ Range(val_dataframe) \cap Range(train_dataframe) = {}
        /\ Len(val_dataframe) + Len(train_dataframe) = Len(dataframe)
        /\ \A r \in Range(dataframe) :
              Occurrences(val_dataframe, r) + Occurrences(train_dataframe, r) = 1

C1_Witness ==
    /\ pc = "wrap"
    /\ Len(val_dataframe) > 0
    /\ Len(train_dataframe) > Len(val_dataframe)

\* C2: when the script has called model.predict on its example input, the
\* result is a probability (and the script did not stop with an error).
C2_ExamplePredicts ==
    (PredictCalled /\ sample = ScriptSample) =>
        (predictions = "probability" /\ pc # "error")

\* C3: a predict call yields a probability only when the mapping names every
\* input in all_inputs; when it omits one, the call ends in an error and no
\* probability is produced.
C3_PredictNeedsEveryInput ==
    PredictCalled =>
        /\ predictions = "probability" => Range(all_inputs) \subseteq sample
        /\ ~(Range(all_inputs) \subseteq sample) =>
              (pc = "error" /\ predictions = "none")

C3_Witness ==
    /\ pc = "error"
    /\ failure = "missing_input"
    /\ predictions = "none"
    /\ Cardinality(Range(all_inputs) \ sample) = 1

\* C4: whatever an encoder has learned, it learned from records of the
\* training partition: no adapt call has read a record of the validation
\* partition.
C4_AdaptReadsTrainingOnly ==
    \A e \in Calls :
        /\ encState[e].rows \cap Range(val_dataframe) = {}
        /\ encState[e].rows \subseteq Range(train_dataframe)

C4_Witness ==
    /\ pc = "compile"
    /\ Range(val_dataframe) # {}
    /\ \A e \in Calls :
          encState[e].adapted /\ encState[e].rows = Range(train_dataframe)

C6_EncodersFrozen ==
    /\ [](pc \notin {"split", "wrap", "batch", "encode", "error"} =>
            \A e \in Calls : encState[e].adapts = 1)
    /\ [][/\ \A e \in Calls :
               encState[e].adapted => encState'[e] = encState[e]
          /\ pc \in {"fit", "predict", "print"} =>
               /\ encState' = encState
               /\ encoded' = encoded
               /\ model' = model
          /\ pc = "fit" =>
               UNCHANGED <<dataframe, val_dataframe, train_dataframe,
                           train_ds, val_ds, sample, predictions, failure>>
         ]_vars

C6_Witness ==
    /\ pc = "done"
    /\ weights >= 50
    /\ \A e \in Calls : encState[e].adapts = 1

\* C7: in every epoch, a pass over a partition of n records yields exactly
\* ceil(n/32) batches, each of 32 records but the last, which holds
\* n - 32*(ceil(n/32) - 1).
C7_BatchSizes ==
    (pc = "fit" /\ phase \in {"train", "val"}) =>
        LET n == IF phase = "train" THEN Len(train_dataframe)
                 ELSE Len(val_dataframe)
        IN  /\ Len(yielded) + Len(iter) = CeilDiv(n, 32)
            /\ \A i \in 1..Len(yielded) : yielded[i] = ExpectedSizes(n)[i]
            /\ iter = <<>> => yielded = ExpectedSizes(n)

C7_Witness ==
    /\ pc = "fit"
    /\ epoch = 49
    /\ phase = "train"
    /\ iter = <<>>
    /\ Len(yielded) = 3
    /\ yielded[3] < 32

\* C8: each input slot is wired through exactly one encoder, and an encoder
\* applied to a slot was adapted from the column of that slot's name.
C8_EncoderMatchesSlot ==
    /\ \A e \in Calls :
          encoded[e].outcome # "none" => encState[e].column = encoded[e].slot
    /\ model # "none" =>
          \A i \in 1..Len(model.inputs) :
              Cardinality({e \in Calls : model.features[e] = model.inputs[i]}) = 1

\* C9: a slot routed through the integer one-hot encoder is declared with an
\* integer dtype, and a slot routed through the numerical normalizer with the
\* float dtype.
C9_SlotTypedPerEncoder ==
    \A e \in Calls :
        encoded[e].outcome # "none" =>
            /\ EncodeCalls[e].fn = "integer" =>
                  SlotDtype[encoded[e].slot] \in {"int32", "int64"}
            /\ EncodeCalls[e].fn = "numerical" =>
                  SlotDtype[encoded[e].slot] = "float32"

\* C10: model.fit runs 50 epochs and returns; the weights have been updated
\* once per training batch of every epoch begun, all of them before the
\* epoch's validation batches, and by no validation batch.
C10_FitSchedule ==
    LET nb == CeilDiv(Len(train_dataframe), 32)
    IN  /\ epoch <= 50
        /\ FitReturned => (epoch = 50 /\ weights = 50 * nb)
        /\ (pc = "fit" /\ phase = "idle") => weights = epoch * nb
        /\ (pc = "fit" /\ phase = "train") =>
              weights = epoch * nb + Len(yielded)
        /\ (pc = "fit" /\ phase = "val") => weights = (epoch + 1) * nb

C10_Witness ==
    /\ pc = "predict"
    /\ epoch = 50
    /\ weights = 150

=============================================================================
